---- MODULE Spec2Model ----
(***************************************************************************)
(* Model of operatorcert/entrypoints/github_pr.py: the command line tool   *)
(* that opens a GitHub pull request.  One run of main() is a sequential    *)
(* process: parse arguments, format the PR body, derive the head, read the *)
(* token, POST, handle the response, log the PR url.                       *)
(*                                                                         *)
(* Text is modelled as a sequence of symbols.  The characters of the title *)
(* and of the owner path are single symbols, because the code splits and   *)
(* slices them; a literal of the code ("Name: **", "\n") is one symbol.    *)
(* Concatenation of text is concatenation of sequences.                    *)
(***************************************************************************)
EXTENDS Integers, Sequences, FiniteSets, TLC

VARIABLES
    args,       \* argparse namespace built from the command line
    environ,    \* value of GITHUB_TOKEN in os.environ
    pc,         \* position of main()
    log_level,  \* level given to logging.basicConfig
    pr_body,    \* main: pr_body, <<>> until get_pr_body returned
    head,       \* main: head, <<>> until get_head returned
    token,      \* open_pr: token, <<>> until os.environ.get returned
    requests,   \* the calls of requests.post made so far
    resp,       \* open_pr: resp, <<>> until requests.post returned
    response,   \* main: response, <<>> until open_pr returned
    logs,       \* records emitted through LOGGER
    error,      \* exception that left main(), "" if none
    exit_code,  \* process exit status, -1 while running
    steps       \* history: the steps main() has executed, in order

vars == <<args, environ, pc, log_level, pr_body, head, token, requests, resp,
          response, logs, error, exit_code, steps>>

(***************************************************************************)
(* Bounds and input alphabets                                              *)
(***************************************************************************)
MaxTitleLen == 6
MaxBodyTitleLen == 7

Whitespace == {" "}
Chars == {" ", "(", "v"}

StrsUpTo(n) == UNION {[1..k -> Chars] : k \in 0..n}

\* An optional value: Python None, or a value.
None == [present |-> FALSE, val |-> <<>>]
Some(v) == [present |-> TRUE, val |-> v]

\* Python truthiness of an optional string: None and "" are both false.
Truthy(opt) == opt.present /\ opt.val # <<>>

(***************************************************************************)
(* Pure functions of the program                                           *)
(***************************************************************************)

\* str.split() without arguments: split on runs of whitespace, no empty
\* strings in the result.
RECURSIVE SplitWsFrom(_, _, _, _)
SplitWsFrom(s, i, cur, acc) ==
    IF i > Len(s)
    THEN IF cur = <<>> THEN acc ELSE Append(acc, cur)
    ELSE IF s[i] \in Whitespace
         THEN SplitWsFrom(s, i + 1, <<>>, IF cur = <<>> THEN acc ELSE Append(acc, cur))
         ELSE SplitWsFrom(s, i + 1, Append(cur, s[i]), acc)

str_split(s) == SplitWsFrom(s, 1, <<>>, <<>>)

\* str.split(sep): split on every occurrence of sep, empty strings kept.
RECURSIVE SplitSepFrom(_, _, _, _, _)
SplitSepFrom(s, sep, i, cur, acc) ==
    IF i > Len(s)
    THEN Append(acc, cur)
    ELSE IF s[i] = sep
         THEN SplitSepFrom(s, sep, i + 1, <<>>, Append(acc, cur))
         ELSE SplitSepFrom(s, sep, i + 1, Append(cur, s[i]), acc)

str_split_sep(s, sep) == SplitSepFrom(s, sep, 1, <<>>, <<>>)

\* A result of a call: the value returned, or the exception raised.
Returned(v) == [raised |-> "", value |-> v]
Raised(e) == [raised |-> e, value |-> <<>>]

\* Variant: the slice [1:], which keeps the last character.
VersionKeepsLast(tok) == SubSeq(tok, 2, Len(tok))

\* title_parts[2][1:-1]
Version(tok) == SubSeq(tok, 2, Len(tok) - 1)

\* title_parts[i] for the 0-based index i raises IndexError iff i >= len.
IndexError(parts, i) == i >= Len(parts)

\* The template filled in by get_pr_body (lines 154-164), given the name
\* token and the version token of the title.
body_text(name, version_token, a) ==
    LET body0 == <<"**New operator bundle**", "\n", "\n">>
        body1 == body0 \o <<"Name: **">> \o name \o <<"**", "\n">>
        body2 == body1 \o <<"Version: **">> \o Version(version_token)
                       \o <<"**", "\n", "\n">>
        body3 == body2 \o <<"Certification project: ">>
                       \o a.cert_project_id \o <<"\n", "\n">>
        body4 == IF Truthy(a.test_result_url)
                 THEN body3 \o <<"Test result URL: ">> \o a.test_result_url.val \o <<"\n">>
                 ELSE body3
        body5 == IF Truthy(a.test_logs_url)
                 THEN body4 \o <<"Test logs URL: ">> \o a.test_logs_url.val \o <<"\n">>
                 ELSE body4
    IN  body5

\* Variant: get_pr_body that takes a missing version token for an empty one.
get_pr_body_lenient(a) ==
    LET title_parts == str_split(a.title)
    IN  IF IndexError(title_parts, 1)
        THEN Raised("IndexError")
        ELSE Returned(body_text(title_parts[2],
                                IF IndexError(title_parts, 2) THEN <<>> ELSE title_parts[3],
                                a))

get_pr_body(a) ==
    LET title_parts == str_split(a.title)
    IN  IF IndexError(title_parts, 1) \/ IndexError(title_parts, 2)
        THEN Raised("IndexError")
        ELSE Returned(body_text(title_parts[2], title_parts[3], a))

\* giturlparse.parse(repository_url).owner: the outcomes the library can
\* produce for the url.  A url it recognises yields its owner path; for one
\* it does not recognise the attribute is missing (AttributeError) or empty,
\* depending on the library version.
UrlAlice == "https://github.com/al/my-repo"
UrlGroup == "https://gitlab.com/g/s/my-repo"
UrlBad == "not-a-git-url"
Parseable(url) == url \in {UrlAlice, UrlGroup}

parsed_owner(url) ==
    CASE url = UrlAlice -> {Returned(<<"a", "l">>)}
      [] url = UrlGroup -> {Returned(<<"g", "/", "s">>)}
      [] OTHER -> {Raised("AttributeError"), Returned(<<>>)}

\* Variant: the owner path taken whole.
NamespaceWholePath(path) == path

\* path.split("/")[0]
Namespace(path) == str_split_sep(path, "/")[1]

\* f"{namespace}:{branch}"
HeadText(path, branch) == Namespace(path) \o <<":">> \o branch

\* get_head: the possible results for a url and a branch.
get_head(repository_url, branch) ==
    {IF o.raised # "" THEN o ELSE Returned(HeadText(o.value, branch)) :
        o \in parsed_owner(repository_url)}

(***************************************************************************)
(* The HTTP exchange                                                       *)
(***************************************************************************)
\* A JSON value looked up with dict.get: absent (None) or a string.
JNone == [present |-> FALSE, val |-> ""]
JSome(v) == [present |-> TRUE, val |-> v]

\* f"{x}" of a value returned by dict.get
Format(opt) == IF opt.present THEN opt.val ELSE "None"

\* 300 stands for a 3xx response that requests does not follow.
StatusCodes == {201, 300, 422, 500}
Messages == {JNone, JSome("Validation Failed")}
PrUrls == {JNone, JSome("https://api.github.com/repos/acme/widget/pulls/7"),
           JSome("https://api.github.com/repos/acme/widget/pulls/8")}

\* A response body: a JSON object (of which the code reads message and url),
\* a JSON value that is not an object, or text that is not JSON.
Bodies == [kind : {"object"}, message : Messages, url : PrUrls]
          \cup [kind : {"array", "invalid"}, message : {JNone}, url : {JNone}]
Responses == [status_code : StatusCodes, body : Bodies]

\* Response.raise_for_status raises HTTPError for 4xx and 5xx.
Is2xx(status_code) == 200 <= status_code /\ status_code < 300
raise_for_status(r) == 400 <= r.status_code /\ r.status_code < 600

\* resp.json(): JSONDecodeError for text that is not JSON.
\* x.get(key): AttributeError when x is not a dict.
json_get_error(body) ==
    CASE body.kind = "invalid" -> "JSONDecodeError"
      [] body.kind = "array" -> "AttributeError"
      [] OTHER -> ""

\* Variant: the exception of the inner try leaves open_pr.
ReraisedInner(body) == IF json_get_error(body) # "" THEN json_get_error(body) ELSE "HTTPError"

\* The exception that leaves the except block of open_pr (lines 113-121):
\* whatever the inner try raised is swallowed, the bare raise re-raises the
\* HTTPError being handled.
Reraised(body) == "HTTPError"

(***************************************************************************)
(* Logging                                                                 *)
(***************************************************************************)
LevelNo(level) ==
    CASE level = "DEBUG" -> 10
      [] level = "INFO" -> 20
      [] level = "WARNING" -> 30
      [] level = "ERROR" -> 40

\* LOGGER.<level>(text): the record is emitted iff the level is enabled.
\* call names the statement that logs: "status" (line 114), "message"
\* (line 117), "json" (line 118), "url" (line 190).
Emit(lg, level, call, text) ==
    IF LevelNo(level) >= LevelNo(log_level)
    THEN Append(lg, [level |-> level, call |-> call, text |-> text])
    ELSE lg

(***************************************************************************)
(* Inputs                                                                  *)
(***************************************************************************)
ResultUrl == <<"https://example.com/result">>
LogsUrl == <<"https://example.com/logs">>
Token == <<"ghp_token">>

\* The namespaces argparse can build: the required flags always hold a
\* string, the optional ones are None when the flag is not given.
Args(titles, result_urls, logs_urls, repository_urls, source_branches, verbosity) ==
    [title : titles,
     cert_project_id : {<<"CERT-42">>},
     test_result_url : result_urls,
     test_logs_url : logs_urls,
     repository_url : repository_urls,
     repository_name : {"acme/widget"},
     source_branch : source_branches,
     target_branch : {<<"main">>},
     github_api_url : {"https://api.github.com"},
     verbose : verbosity]

MainArgs ==
    Args(StrsUpTo(MaxTitleLen), {None, Some(ResultUrl)}, {None, Some(LogsUrl)},
         {UrlAlice, UrlGroup, UrlBad}, {<<"fix-1">>, <<"dev">>}, BOOLEAN)

BodyArgs ==
    Args(StrsUpTo(MaxBodyTitleLen), {None, Some(<<>>), Some(ResultUrl)},
         {None, Some(<<>>), Some(LogsUrl)}, {UrlAlice}, {<<"fix-1">>}, {FALSE})

Environs == {None, Some(<<>>), Some(Token)}

(***************************************************************************)
(* The run of main()                                                       *)
(***************************************************************************)
Start(argset) ==
    /\ args \in argset
    /\ environ \in Environs
    /\ pc = "parse_args"
    /\ log_level = "WARNING"
    /\ pr_body = <<>>
    /\ head = <<>>
    /\ token = <<>>
    /\ requests = <<>>
    /\ resp = <<>>
    /\ response = <<>>
    /\ logs = <<>>
    /\ error = ""
    /\ exit_code = -1
    /\ steps = <<>>

Init == Start(MainArgs)

\* Variant: main() goes on after an exception.
PcAfterSwallowed(raised, next_pc) == next_pc

\* Where main() continues after a call: an exception is not caught anywhere
\* in main(), so it ends the run.
PcAfter(raised, next_pc) == IF raised # "" THEN "done" ELSE next_pc

Continue(raised, next_pc) ==
    /\ pc' = PcAfter(raised, next_pc)
    /\ error' = IF raised # "" THEN raised ELSE error
    /\ exit_code' = IF raised # "" THEN 1 ELSE exit_code
    /\ steps' = Append(steps, pc)

\* main, lines 171-177
ParseArgs ==
    /\ pc = "parse_args"
    /\ log_level' = IF args.verbose THEN "DEBUG" ELSE "INFO"
    /\ Continue("", "get_pr_body")
    /\ UNCHANGED <<args, environ, pr_body, head, token, requests, resp, response, logs>>

\* main, line 179
GetPrBody ==
    /\ pc = "get_pr_body"
    /\ LET r == get_pr_body(args)
       IN  /\ pr_body' = IF r.raised = "" THEN <<r.value>> ELSE pr_body
           /\ Continue(r.raised, "get_head")
    /\ UNCHANGED <<args, environ, log_level, head, token, requests, resp, response, logs>>

\* main, line 180
GetHead ==
    /\ pc = "get_head"
    /\ \E r \in get_head(args.repository_url, args.source_branch) :
           /\ head' = IF r.raised = "" THEN <<r.value>> ELSE head
           /\ Continue(r.raised, "open_pr")
    /\ UNCHANGED <<args, environ, log_level, pr_body, token, requests, resp, response, logs>>

\* Variants: no test of the token; a test for None only.
TokenMissingNever(tok) == FALSE
TokenMissingIfNone(tok) == ~tok.present

\* open_pr, line 100: "if not token"
TokenMissing(tok) == ~Truthy(tok)

\* open_pr, lines 96-101
OpenPrReadToken ==
    /\ pc = "open_pr"
    /\ token' = <<environ>>
    /\ Continue(IF TokenMissing(environ) THEN "Exception" ELSE "", "post")
    /\ UNCHANGED <<args, environ, log_level, pr_body, head, requests, resp, response, logs>>

\* The call of requests.post built at lines 96-97 and 103-110.
PostRequest ==
    [url |-> <<args.github_api_url, "/repos/", args.repository_name, "/pulls">>,
     json |-> [head |-> head[1], base |-> args.target_branch,
               title |-> args.title, body |-> pr_body[1]],
     headers |-> [Accept |-> "application/vnd.github.v3+json",
                  Authorization |-> <<"Bearer ">> \o
                      (IF token[1].present THEN token[1].val ELSE <<"None">>)]]

\* open_pr, lines 103-110: the request is sent; the transport fails or a
\* response comes back.
Post ==
    /\ pc = "post"
    /\ requests' = Append(requests, PostRequest)
    /\ \/ /\ Continue("ConnectionError", "handle_response")
          /\ resp' = resp
       \/ /\ \E r \in Responses : resp' = <<r>>
          /\ Continue("", "handle_response")
    /\ UNCHANGED <<args, environ, log_level, pr_body, head, token, response, logs>>

\* Variant: the request is sent again after an HTTP error.
RetryAfterHttpError == "post"

\* open_pr, line 121: the exception is raised, nothing is sent again.
AfterHttpError == "done"

\* open_pr, lines 111-122
HandleResponse ==
    /\ pc = "handle_response"
    /\ LET r == resp[1]
           logs1 == Emit(logs, "ERROR", "status",
                         <<"Got error code from Github API ", r.status_code>>)
           logs2 == Emit(logs1, "ERROR", "message", <<Format(r.body.message)>>)
           logs3 == Emit(logs2, "DEBUG", "json", <<r.body>>)
       IN  IF raise_for_status(r)
           THEN /\ logs' = IF json_get_error(r.body) = "" THEN logs3 ELSE logs1
                /\ pc' = AfterHttpError
                /\ error' = Reraised(r.body)
                /\ exit_code' = 1
                /\ steps' = Append(steps, pc)
                /\ response' = response
           ELSE IF r.body.kind = "invalid"
           THEN /\ Continue("JSONDecodeError", "log_url")
                /\ UNCHANGED <<logs, response>>
           ELSE /\ Continue("", "log_url")
                /\ response' = <<r.body>>
                /\ logs' = logs
    /\ UNCHANGED <<args, environ, log_level, pr_body, head, token, requests, resp>>

\* Variant: the message field is read instead of url.
response_get_message(body) == body.message

\* main, line 189: response.get("url")
response_get_url(body) == body.url

\* main, lines 189-190
LogUrl ==
    /\ pc = "log_url"
    /\ IF response[1].kind # "object"
       THEN /\ Continue("AttributeError", "done")
            /\ logs' = logs
       ELSE /\ logs' = Emit(logs, "INFO", "url",
                            <<"Pull request URL: ", Format(response_get_url(response[1]))>>)
            /\ pc' = "done"
            /\ exit_code' = 0
            /\ error' = error
            /\ steps' = Append(steps, pc)
    /\ UNCHANGED <<args, environ, log_level, pr_body, head, token, requests, resp, response>>

Next ==
    \/ ParseArgs
    \/ GetPrBody
    \/ GetHead
    \/ OpenPrReadToken
    \/ Post
    \/ HandleResponse
    \/ LogUrl

Spec == Init /\ [][Next]_vars

\* get_pr_body alone, over every title up to MaxBodyTitleLen and every
\* combination of the optional urls.
InitBody == Start(BodyArgs)
NextBody == ParseArgs \/ GetPrBody
SpecBody == InitBody /\ [][NextBody]_vars

(***************************************************************************)
(* Properties                                                              *)
(***************************************************************************)
Range(seq) == {seq[i] : i \in 1..Len(seq)}
Done(step) == step \in Range(steps)
CallsLogged == {logs[i].call : i \in 1..Len(logs)}
StatusRecord(status_code) ==
    [level |-> "ERROR", call |-> "status",
     text |-> <<"Got error code from Github API ", status_code>>]

\* C1: with GITHUB_TOKEN unset open_pr fails with the missing-token error
\* and the run has issued no POST, then or later; whenever a POST has been
\* issued, the token was read before and was set.
C1_NoPostWithoutToken ==
    /\ requests # <<>> => token # <<>> /\ token[1].present
    /\ ~environ.present /\ Done("open_pr") =>
           /\ pc = "done"
           /\ error = "Exception"
           /\ exit_code = 1
           /\ requests = <<>>

C1_Witness ==
    ~environ.present /\ Done("open_pr") /\ pr_body # <<>> /\ head # <<>>

StepOrder ==
    <<"parse_args", "get_pr_body", "get_head", "open_pr", "post",
      "handle_response", "log_url">>

C3_FailureEndsRun ==
    /\ Len(steps) <= Len(StepOrder)
    /\ steps = SubSeq(StepOrder, 1, Len(steps))
    /\ error # "" => pc = "done" /\ exit_code = 1
    /\ pc = "done" => (exit_code = 0 <=> error = "")
    /\ Done("get_pr_body") /\ pr_body = <<>> =>
           pc = "done" /\ error # "" /\ head = <<>> /\ requests = <<>>
    /\ Done("get_head") /\ head = <<>> =>
           pc = "done" /\ error # "" /\ token = <<>> /\ requests = <<>>
    /\ requests # <<>> => pr_body # <<>> /\ head # <<>> /\ token # <<>>
    /\ "url" \in CallsLogged => pc = "done" /\ exit_code = 0 /\ error = ""

C3_Witness ==
    pc = "done" /\ exit_code = 1 /\ pr_body # <<>> /\ head = <<>>

\* C4, on the error responses among the non-2xx ones (4xx and 5xx): open_pr
\* logs the status code at error level first, logs the message field only if
\* the response has one, then fails with the HTTP error; it returns no value.
C4_Original ==
    resp # <<>> /\ resp[1].status_code >= 400 /\ Done("handle_response") =>
        /\ logs # <<>>
        /\ logs[1] = StatusRecord(resp[1].status_code)
        /\ "message" \in CallsLogged => resp[1].body.message.present
        /\ error = "HTTPError"
        /\ response = <<>>
        /\ pc = "done"

\* C5: a title of fewer than 3 whitespace-separated tokens makes the body
\* formatter fail instead of returning a body, and then no head is derived
\* and no POST is issued.
TokenStarts(t) ==
    {i \in 1..Len(t) : t[i] \notin Whitespace /\ (i = 1 \/ t[i - 1] \in Whitespace)}
TokenCount(t) == Cardinality(TokenStarts(t))

C5_ShortTitleFails ==
    TokenCount(args.title) < 3 /\ Done("get_pr_body") =>
        /\ pr_body = <<>>
        /\ error = "IndexError"
        /\ pc = "done"
        /\ exit_code = 1
        /\ head = <<>>
        /\ requests = <<>>

C5_Witness ==
    TokenCount(args.title) = 2 /\ Done("get_pr_body") /\ error = "IndexError"

\* C6: for a title of at least 3 tokens the body is the header, a blank
\* line, the Name line with the 2nd token, the Version line with the 3rd
\* token less its first and its last character, a blank line, the
\* certification project line, a blank line, then the test result line iff
\* a test result url was given, then the test logs line iff a test logs url
\* was given.  A flag given with an empty value counts as no url given.
TokenAt(t, start) ==
    LET stop == IF \E j \in start..Len(t) : t[j] \in Whitespace
                THEN CHOOSE j \in start..Len(t) :
                         /\ t[j] \in Whitespace
                         /\ \A k \in start..(j - 1) : t[k] \notin Whitespace
                ELSE Len(t) + 1
    IN  [k \in 1..(stop - start) |-> t[start + k - 1]]
NthStart(t, n) ==
    CHOOSE i \in TokenStarts(t) : Cardinality({j \in TokenStarts(t) : j <= i}) = n
NthToken(t, n) == TokenAt(t, NthStart(t, n))
Inner(tok) == [k \in 1..(IF Len(tok) > 2 THEN Len(tok) - 2 ELSE 0) |-> tok[k + 1]]
Given(url) == url.present /\ Len(url.val) > 0

ExpectedBody ==
    <<"**New operator bundle**", "\n",
      "\n",
      "Name: **">> \o NthToken(args.title, 2) \o <<"**", "\n",
      "Version: **">> \o Inner(NthToken(args.title, 3)) \o <<"**", "\n",
      "\n",
      "Certification project: ">> \o args.cert_project_id \o <<"\n",
      "\n">>
    \o (IF Given(args.test_result_url)
        THEN <<"Test result URL: ">> \o args.test_result_url.val \o <<"\n">>
        ELSE <<>>)
    \o (IF Given(args.test_logs_url)
        THEN <<"Test logs URL: ">> \o args.test_logs_url.val \o <<"\n">>
        ELSE <<>>)

C6_BodyTemplate ==
    TokenCount(args.title) >= 3 /\ Done("get_pr_body") => pr_body = <<ExpectedBody>>

C6_Witness ==
    /\ Done("get_pr_body")
    /\ TokenCount(args.title) >= 3
    /\ Len(NthToken(args.title, 3)) >= 3
    /\ args.test_result_url = Some(ResultUrl)
    /\ args.test_logs_url = Some(LogsUrl)
    /\ pr_body # <<>>
    /\ "Test logs URL: " \in Range(pr_body[1])

\* C7: for a url the parser recognises, the head is namespace ":" branch,
\* the namespace being the owner path up to its first "/" and the branch
\* unchanged; that head is sent as head of the POST, and base is the target
\* branch.
OwnerPath(url) == (CHOOSE o \in parsed_owner(url) : o.raised = "").value
UpToSlash(path) ==
    LET slashes == {i \in 1..Len(path) : path[i] = "/"}
        first == IF slashes = {} THEN Len(path) + 1
                 ELSE CHOOSE i \in slashes : \A j \in slashes : i <= j
    IN  [k \in 1..(first - 1) |-> path[k]]

C7_HeadDerivation ==
    /\ Parseable(args.repository_url) /\ Done("get_head") =>
           head = <<UpToSlash(OwnerPath(args.repository_url)) \o <<":">>
                    \o args.source_branch>>
    /\ \A i \in 1..Len(requests) :
           /\ requests[i].json.head = head[1]
           /\ requests[i].json.base = args.target_branch

C7_Witness ==
    args.repository_url = UrlGroup /\ requests # <<>> /\ head = <<<<"g", ":", "dev">>>>

\* C8, as stated: after a 2xx response main logs the url and the process
\* exits with code 0.
C8_Original ==
    pc = "done" /\ resp # <<>> /\ Is2xx(resp[1].status_code) =>
        exit_code = 0 /\ "url" \in CallsLogged

\* C8, amended: when the POST returns a 2xx response whose body is a JSON
\* object, open_pr returns that object unchanged, main logs the value of its
\* url field (None when it has none) at info level and nothing else, and the
\* process exits with code 0; a url is only ever logged from the response
\* of the single POST of the run.
UrlRecord(body) ==
    [level |-> "INFO", call |-> "url",
     text |-> <<"Pull request URL: ",
                IF body.url.present THEN body.url.val ELSE "None">>]

C8_SuccessLogsUrl ==
    /\ resp # <<>> /\ Is2xx(resp[1].status_code) /\ resp[1].body.kind = "object"
       /\ Done("handle_response") =>
           /\ response = <<resp[1].body>>
           /\ error = ""
           /\ pc = "done" => exit_code = 0 /\ logs = <<UrlRecord(resp[1].body)>>
    /\ "url" \in CallsLogged => Len(requests) = 1 /\ response = <<resp[1].body>>

C8_Witness ==
    /\ pc = "done"
    /\ exit_code = 0
    /\ resp # <<>>
    /\ resp[1].status_code = 201
    /\ resp[1].body.url.present
    /\ "url" \in CallsLogged

\* C9: a GITHUB_TOKEN that is set but empty is treated like an unset one,
\* open_pr fails with the missing-token error and no POST is issued; every
\* POST sent carries "Bearer " followed by a non-empty token, the one of the
\* environment.
C9_EmptyTokenIsMissing ==
    /\ environ.present /\ environ.val = <<>> /\ Done("open_pr") =>
           /\ pc = "done"
           /\ error = "Exception"
           /\ exit_code = 1
           /\ requests = <<>>
    /\ \A i \in 1..Len(requests) :
           LET auth == requests[i].headers.Authorization
           IN  /\ Len(auth) >= 2
               /\ auth[1] = "Bearer "
               /\ environ.present
               /\ SubSeq(auth, 2, Len(auth)) = environ.val

C9_Witness ==
    environ.present /\ environ.val = <<>> /\ Done("open_pr") /\ head # <<>>

====
